---- MODULE Spec2Model ----
(***************************************************************************)
(* Model of the programming-tips tutorials:                                *)
(*   20210510_constexpr.cpp  the Template Turing Machine (TTM) and the     *)
(*                           constexpr Turing Machine (CTM)                *)
(*   20210208_atomic.cpp     the atomic counter test with 86 threads       *)
(*   20210201_raii.cpp       the resource store Oss, the RAII class Plan   *)
(*                           and main's use of them                        *)
(*   20210125_smart_pointers.cpp  main's Persons, Campaigns and the        *)
(*                           Administration in us_cabinet                  *)
(* Symbols and CTM states are one-character strings, TTM states are the    *)
(* integers of enum State.                                                 *)
(***************************************************************************)
EXTENDS Integers, Sequences, FiniteSets, TLC

VARIABLES
    form,       \* which machine this behaviour runs: "TTM", "CTM" or "none"
    pc,         \* "new", "ready", "run", "halt", "idle"; "reject": the constructor
                \* threw; "fail": run threw, or the TTM does not build
    what,       \* message of the exception / compiler diagnostic, "" when none
    input,      \* the input: run()'s argument, or the Input tape of TTM<>
    instr,      \* the instruction selected by the last step (0: none)
    program,    \* CTM: the constructor's argument
    m_program,  \* CTM::m_program
    tape,       \* CTM::run local std::array<char,TapeLength>
    head_,      \* CTM::run local size_t head
    state,      \* CTM::run local char state
    TTMProgram, \* TTM: Program<Instruction...>
    TapeLeft,   \* TTM: Machine<..., TapeLeft, ..., ...>
    TapeRight,  \* TTM: Machine<..., ..., TapeRight, ...>
    mstate,     \* TTM: Machine<..., ..., ..., state>
    pos,        \* TTM: position of the head relative to the input's first cell
    chernobyl,  \* atomic: std::atomic<int_fast16_t> chernobyl
    spawned,    \* atomic: number of threads emplaced in test (loop variable i)
    pending,    \* atomic: started threads that did not yet execute chernobyl++
    joined,     \* atomic: number of threads joined so far
    mainpc,     \* atomic: position of main: "spawn", "join", "assert", "done", "idle"
    driver,     \* raii: who calls: "main", "client" (calls Oss directly),
                \* "plans" (a client of Plan) or "none"
    storage,    \* raii: static Oss storage: [m_available, m_reserved]
    rpc,        \* raii: index in main (in client) of the statement being executed
    sub,        \* raii: how many steps of that statement are done
    mode,       \* raii: "run"; "leave": a scope is being left; "unwind": an
                \* exception is in flight; "done"; "abort"; "terminate"; "idle"
    frames,     \* raii: the open scopes, innermost last, each with its objects
    constructing, \* raii: the Plan whose constructor or operator= is running
    called,     \* raii: the Oss member function this step called, its argument
                \* and what() of the exception it threw ("" when it returned)
    raised,     \* raii: what() of the last exception thrown, "" if none yet
    spc,        \* pointers: where main is: [at, year] (year: the election called)
    president,  \* pointers: the std::unique_ptr<Person> of the first block
    persons,    \* pointers: the Persons on the heap (constructed, not deleted)
    use_count,  \* pointers: per Person, the use count of its shared_ptr control block
    locals,     \* pointers: main's std::shared_ptr<Person> variables
    campaigns,  \* pointers: the Campaigns made for the arguments of an election
    administration, \* pointers: the Administration a conversion just made
    us_cabinet, \* pointers: the global std::unique_ptr<Administration>
    speech,     \* pointers: the Dirt* election_2016 returns
    fact        \* pointers: how often fact was reset (the loop's i)

tmVars == <<form, pc, what, input, instr, program, m_program, tape, head_, state,
            TTMProgram, TapeLeft, TapeRight, mstate, pos>>
atVars == <<chernobyl, spawned, pending, joined, mainpc>>
raiiVars == <<driver, storage, rpc, sub, mode, frames, constructing, called, raised>>
spVars == <<spc, president, persons, use_count, locals, campaigns, administration,
            us_cabinet, speech, fact>>
vars == <<tmVars, atVars, raiiVars, spVars>>

(* No Plan is being constructed; no member function of Oss was called.     *)
NoPlan == [name |-> "", kind |-> "", plans |-> <<>>]
NoCall == [op |-> "", x |-> 0, what |-> ""]

RaiiIdle ==
    /\ driver = "none"
    /\ storage = [m_available |-> 0, m_reserved |-> 0]
    /\ rpc = 0
    /\ sub = 0
    /\ mode = "idle"
    /\ frames = <<>>
    /\ constructing = NoPlan
    /\ called = NoCall
    /\ raised = ""

(* The names of the Persons main makes shared, and of its variables.       *)
People == {"Kaine", "Pence", "Clinton", "Biden", "Harris", "Trump"}
Locals == {"kaine", "pence", "clinton", "biden", "harris", "trump"}
nullptr == "nullptr"

(* Before main: no Person, every pointer null.                             *)
NoPointers ==
    /\ president = nullptr
    /\ persons = {}
    /\ use_count = [p \in People |-> 0]
    /\ locals = [v \in Locals |-> nullptr]
    /\ campaigns = {}
    /\ administration = <<>>
    /\ us_cabinet = <<>>
    /\ speech = "unset"
    /\ fact = 0

PointersIdle == spc = [at |-> "idle", year |-> 0] /\ NoPointers

----------------------------------------------------------------------------
(* enum State, enum Symbol, enum Move (TTM); the characters of the CTM.    *)

Halt == -1
Init == 0

blank == " "
zero == "0"
one == "1"
any == "?"
nothing == "*"
erased == "_"

TapeLength == 128

----------------------------------------------------------------------------
(* Bounds of the model.                                                    *)

MaxInput == 3      \* longest enumerated input
MaxCells == 40     \* TTM: steps are explored while the tape type holds at most this many symbols
MaxProgram == 2    \* instructions per enumerated program

----------------------------------------------------------------------------
(* Tape<...> functions of the TTM.                                         *)

head(T) == IF T = <<>> THEN blank ELSE T[1]

(* dropFirst without its effect: the tape keeps its first symbol.         *)
dropFirst_keep(T) == T

dropFirst(T) == IF T = <<>> THEN <<>> ELSE Tail(T)

append(symbol, T) == T \o <<symbol>>

(* prepend putting the symbol at the wrong end.                            *)
prepend_back(symbol, T) == T \o <<symbol>>

prepend(symbol, T) == <<symbol>> \o T

dropLast(T) == IF T = <<>> THEN <<>> ELSE SubSeq(T, 1, Len(T) - 1)

(* last<> whose empty-tape specialization yields the erased symbol.        *)
last_erased(T) == IF T = <<>> THEN erased ELSE T[Len(T)]

last(T) == IF T = <<>> THEN blank ELSE T[Len(T)]

(* set<> that inserts the symbol without dropping the one it replaces.     *)
set_insert(symbol, T) == IF symbol = nothing THEN T ELSE prepend(symbol, T)

set(symbol, T) == IF symbol = nothing THEN T ELSE prepend(symbol, dropFirst(T))

(* An Instruction<state, input, output, move, next>.                       *)
Instruction(s, i, o, m, n) == [state |-> s, input |-> i, output |-> o, move |-> m, next |-> n]

(* execute<> whose move-right appends the symbol that was under the head   *)
(* before the write.                                                       *)
execute_stale(L, R, I) ==
    CASE I.move = "None" ->
            [left |-> L, right |-> set(I.output, R), state |-> I.next]
      [] I.move = "Left" ->
            [left |-> dropLast(L),
             right |-> prepend(last(L), set(I.output, R)),
             state |-> I.next]
      [] I.move = "Right" ->
            [left |-> append(head(R), L),
             right |-> dropFirst(R),
             state |-> I.next]

(* execute<Machine, Instruction>::result: the new left tape, right tape    *)
(* and state.                                                              *)
execute(L, R, I) ==
    CASE I.move = "None" ->
            [left |-> L, right |-> set(I.output, R), state |-> I.next]
      [] I.move = "Left" ->
            [left |-> dropLast(L),
             right |-> prepend(last(L), set(I.output, R)),
             state |-> I.next]
      [] I.move = "Right" ->
            [left |-> append(head(set(I.output, R)), L),
             right |-> dropFirst(R),
             state |-> I.next]

(* find<Program, state, input>: the index in P of the selected             *)
(* instruction; 0 when the program is exhausted (the primary template has  *)
(* no member 'instruction'); -1 when both the exact and the wildcard       *)
(* specialization match the first instruction (ambiguous instantiation).   *)
RECURSIVE findFrom(_, _, _, _)
findFrom(P, k, s, i) ==
    IF k > Len(P) THEN 0
    ELSE LET exact == P[k].state = s /\ P[k].input = i
             wild == P[k].state = s /\ P[k].input = any
         IN  IF exact /\ wild THEN -1
             ELSE IF exact \/ wild THEN k
             ELSE findFrom(P, k + 1, s, i)

find(P, s, i) == findFrom(P, 1, s, i)

----------------------------------------------------------------------------
(* CTM.                                                                    *)

strlen(s) == Len(s)

(* The instruction search of CTM::run: the index in the program of the     *)
(* first character of the selected instruction, 0 when the scan reaches    *)
(* the terminating NUL.                                                    *)
(* The search without the breaks: the last matching instruction wins.      *)
RECURSIVE scan_last(_, _, _, _)
scan_last(p, i, st, sym) ==
    IF i > Len(p) THEN 0
    ELSE LET r == scan_last(p, i + 5, st, sym)
         IN  IF r # 0 THEN r
             ELSE IF p[i] = st /\ p[i + 1] \in {any, sym} THEN i
             ELSE 0

(* The search without the wildcard test "if(instr[1] == any) break;".      *)
RECURSIVE scan_noWildcard(_, _, _, _)
scan_noWildcard(p, i, st, sym) ==
    IF i > Len(p) THEN 0
    ELSE IF p[i] # st THEN scan_noWildcard(p, i + 5, st, sym)
    ELSE IF p[i + 1] = sym THEN i
    ELSE scan_noWildcard(p, i + 5, st, sym)

(* The search with the wildcard also taken on the tape's side: a '?' under *)
(* the head matches every instruction of the state.                        *)
RECURSIVE scan_symbolWild(_, _, _, _)
scan_symbolWild(p, i, st, sym) ==
    IF i > Len(p) THEN 0
    ELSE IF p[i] # st THEN scan_symbolWild(p, i + 5, st, sym)
    ELSE IF p[i + 1] = any \/ sym = any THEN i
    ELSE IF p[i + 1] = sym THEN i
    ELSE scan_symbolWild(p, i + 5, st, sym)

RECURSIVE scan(_, _, _, _)
scan(p, i, st, sym) ==
    IF i > Len(p) THEN 0
    ELSE IF p[i] # st THEN scan(p, i + 5, st, sym)
    ELSE IF p[i + 1] = any THEN i
    ELSE IF p[i + 1] = sym THEN i
    ELSE scan(p, i + 5, st, sym)

(* tape after "Initialize to blank" and "Copy input to tape".              *)
LoadTape(in) ==
    [c \in 0 .. TapeLength - 1 |->
        IF c >= TapeLength \div 2 /\ c - TapeLength \div 2 < Len(in)
        THEN in[c - TapeLength \div 2 + 1] ELSE blank]

(* "Update tape."                                                          *)
(* A write that stores the no-write sentinel like any other symbol.        *)
UpdateTape_always(t, h, out) == [t EXCEPT ![h] = out]

UpdateTape(t, h, out) == IF out # nothing THEN [t EXCEPT ![h] = out] ELSE t

(* The bounds test of the move to the right only.                          *)
OutOfMemory_rightOnly(h, mv) == mv = "R" /\ h >= TapeLength - 1

(* "Move head.": TRUE when the move throws "Out of memory".                *)
OutOfMemory(h, mv) ==
    \/ mv = "R" /\ h >= TapeLength - 1
    \/ mv = "L" /\ h = 0

(* "if(state == 'H') return tape;" without the test.                       *)
Halted_never(st) == FALSE

(* "Update state.": TRUE when run returns the tape.                        *)
Halted(st) == st = "H"

MoveHead(h, mv) == IF mv = "R" THEN h + 1 ELSE IF mv = "L" THEN h - 1 ELSE h

----------------------------------------------------------------------------
(* The Normalized Measurement program, as TTM_measure and as ctm_measure.  *)

TTM_measure ==
    << Instruction(Init, any, nothing, "Left", 1),
       Instruction(1, blank, "m", "Left", 2),
       Instruction(2, blank, "n", "Left", 3),
       Instruction(3, blank, zero, "Right", 4),
       Instruction(4, "m", nothing, "Right", 5),
       Instruction(4, any, nothing, "Right", 4),
       Instruction(5, one, erased, "Left", 6),
       Instruction(5, blank, nothing, "None", Halt),
       Instruction(5, any, erased, "Right", 5),
       Instruction(6, "n", nothing, "Left", 7),
       Instruction(6, any, nothing, "Left", 6),
       Instruction(7, one, zero, "Left", 7),
       Instruction(7, any, one, "Right", 4) >>

ctm_measure ==
       <<"0", "?", "*", "L", "1">>
    \o <<"1", " ", "m", "L", "2">>
    \o <<"2", " ", "n", "L", "3">>
    \o <<"3", " ", "0", "R", "4">>
    \o <<"4", "m", "*", "R", "5">>
    \o <<"4", "?", "*", "R", "4">>
    \o <<"5", "1", "_", "L", "6">>
    \o <<"5", " ", "*", "N", "H">>
    \o <<"5", "?", "_", "R", "5">>
    \o <<"6", "n", "*", "L", "7">>
    \o <<"6", "?", "*", "L", "6">>
    \o <<"7", "1", "0", "L", "7">>
    \o <<"7", "?", "1", "R", "4">>

----------------------------------------------------------------------------
(* Inputs and programs the behaviours start from.                          *)

InputSymbols == {blank, zero, one, any, nothing, "m", "n"}

SeqsUpTo(S, n) == UNION {[1 .. k -> S] : k \in 0 .. n}

Inputs == SeqsUpTo(InputSymbols, MaxInput)

(* Inputs that fill the right half of the CTM's tape up to its last cells. *)
LongInputs ==
    {[i \in 1 .. k |-> zero] : k \in {TapeLength \div 2 - 1, TapeLength \div 2}}

(* The inputs the source runs the Normalized Measurement on: test_ttm's    *)
(* 01101110001110101110011, 101012101232101210101 and Th1s_1s_n1ce!!1111,  *)
(* and the string ctm_measure.run is evaluated on.                         *)
test_binary ==
    <<zero, one, one, zero, one, one, one, zero, zero, zero, one, one, one,
      zero, one, zero, one, one, one, zero, zero, one, one>>

test_digits ==
    <<one, zero, one, zero, one, "2", one, zero, one, "2", "3", "2", one,
      zero, one, "2", one, zero, one, zero, one>>

test_nice ==
    <<"T", "h", one, "s", erased, one, "s", erased, "n", one, "c", "e",
      "!", "!", one, one, one, one>>

ctm_input ==
    <<"W", "h", "a", "t", erased, one, "s", erased, "t", "h", "e", erased,
      "w", one, "d", "t", "h", erased, "o", "f", erased, "6", erased, "S",
      "i", erased, "a", "t", "o", "m", "s", any, "!", one>>

(* An input of one's own (TTM_INPUT, argv[1]): 21 binary symbols, a blank  *)
(* and two more ones.                                                      *)
blank_inside ==
    <<zero, one, one, zero, one, one, one, zero, zero, zero, one, one, one,
      zero, one, zero, one, one, one, zero, zero, blank, one, one>>

TestInputs == {test_binary, test_digits, test_nice, blank_inside}

NoProgram == [null |-> TRUE, str |-> <<>>]
ProgramText(p) == [null |-> FALSE, str |-> p]

BlankTape == [c \in 0 .. TapeLength - 1 |-> blank]

AtomicIdle ==
    /\ chernobyl = 0
    /\ spawned = 0
    /\ pending = 0
    /\ joined = 0
    /\ mainpc = "idle"

(* A TTM<Program, Input>: Machine<Program, Tape<>, Input, State::Init>.    *)
TTM(P, in) ==
    /\ form = "TTM"
    /\ pc = "run"
    /\ what = ""
    /\ input = in
    /\ instr = 0
    /\ TTMProgram = P
    /\ TapeLeft = <<>>
    /\ TapeRight = in
    /\ mstate = Init
    /\ pos = 0
    /\ program = NoProgram
    /\ m_program = <<>>
    /\ tape = BlankTape
    /\ head_ = 0
    /\ state = "0"

(* A CTM about to be constructed from p and then run on in.                *)
CTM(p, in) ==
    /\ form = "CTM"
    /\ pc = "new"
    /\ what = ""
    /\ input = in
    /\ instr = 0
    /\ program = p
    /\ m_program = <<>>
    /\ tape = BlankTape
    /\ head_ = 0
    /\ state = "0"
    /\ TTMProgram = <<>>
    /\ TapeLeft = <<>>
    /\ TapeRight = <<>>
    /\ mstate = Init
    /\ pos = 0

InitMeasure ==
    /\ AtomicIdle
    /\ RaiiIdle
    /\ PointersIdle
    /\ \/ \E in \in Inputs \cup TestInputs : TTM(TTM_measure, in)
       \/ \E in \in Inputs \cup LongInputs \cup TestInputs \cup {ctm_input} :
              CTM(ProgramText(ctm_measure), in)

(* Programs of up to MaxProgram instructions over a small instruction set: *)
(* states '0', '1' and 'H', exact and wildcard inputs, writing and         *)
(* non-writing outputs, every move.                                        *)
Effects ==
    { <<zero, "R", "1">>, <<nothing, "L", "0">>, <<erased, "N", "H">> }

Instructions ==
    {<<s, i>> \o e : s \in {"0", "1"}, i \in {any, one, blank}, e \in Effects}
    \cup {<<"H", any>> \o e : e \in {<<zero, "R", "1">>, <<nothing, "L", "0">>}}

RECURSIVE Flat(_)
Flat(is) == IF is = <<>> THEN <<>> ELSE Head(is) \o Flat(Tail(is))

Programs == {Flat(is) : is \in SeqsUpTo(Instructions, MaxProgram)}

(* Constructor arguments CTM::CTM rejects: nullptr, and a text whose       *)
(* length is no multiple of five (the "huh?" of the source).               *)
Malformed ==
    {NoProgram} \cup
    {ProgramText(p \o <<"h", "u", "h", "?">>) : p \in {<<>>, ctm_measure}}

(* Programs that sweep the head to an end of the tape, writing every cell  *)
(* and changing the state with every step.                                 *)
Sweeps ==
    {Flat(<<<<"0", any, erased, mv, "1">>, <<"1", any, erased, mv, "0">>>>) :
        mv \in {"L", "R"}}

MachineInputs == {<<>>, <<one>>, <<any>>, <<one, blank, one>>}

(* The TTM Program<...> with the instructions of the CTM program text p.   *)
ToState(c) == IF c = "H" THEN Halt ELSE IF c = "0" THEN Init ELSE 1
ToMove(c) == IF c = "R" THEN "Right" ELSE IF c = "L" THEN "Left" ELSE "None"
ToTTM(p) ==
    [k \in 1 .. Len(p) \div 5 |->
        Instruction(ToState(p[5 * k - 4]), p[5 * k - 3], p[5 * k - 2],
                    ToMove(p[5 * k - 1]), ToState(p[5 * k]))]

InitMachine ==
    /\ AtomicIdle
    /\ RaiiIdle
    /\ PointersIdle
    /\ \/ \E p \in Programs, in \in MachineInputs : TTM(ToTTM(p), in)
       \/ \E p \in Programs, in \in MachineInputs : CTM(ProgramText(p), in)
       \/ \E p \in Malformed : CTM(p, <<>>)
       \/ \E p \in Sweeps, in \in MachineInputs : CTM(ProgramText(p), in)

----------------------------------------------------------------------------
(* Operations of the machines.                                             *)

(* CTM::CTM(char const* program)                                           *)
CTMConstruct ==
    /\ form = "CTM"
    /\ pc = "new"
    /\ IF program.null
       THEN /\ pc' = "reject"
            /\ what' = "No program specified"
            /\ m_program' = m_program
       ELSE IF strlen(program.str) % 5 # 0
       THEN /\ pc' = "reject"
            /\ what' = "Invalid program"
            /\ m_program' = m_program
       ELSE /\ pc' = "ready"
            /\ what' = what
            /\ m_program' = program.str
    /\ UNCHANGED <<form, input, instr, program, tape, head_, state,
                   TTMProgram, TapeLeft, TapeRight, mstate, pos>>
    /\ UNCHANGED <<atVars, raiiVars, spVars>>

(* CTM::run(input), up to the program loop.                                *)
CTMRun ==
    /\ form = "CTM"
    /\ pc = "ready"
    /\ tape' = LoadTape(input)
    /\ head_' = TapeLength \div 2
    /\ state' = "0"
    /\ pc' = "run"
    /\ UNCHANGED <<form, what, input, instr, program, m_program,
                   TTMProgram, TapeLeft, TapeRight, mstate, pos>>
    /\ UNCHANGED <<atVars, raiiVars, spVars>>

(* One iteration of the program loop of CTM::run.                          *)
CTMStep ==
    /\ form = "CTM"
    /\ pc = "run"
    /\ LET i == scan(m_program, 1, state, tape[head_])
       IN  IF i = 0
           THEN /\ pc' = "fail"
                /\ what' = "Invalid program"
                /\ instr' = 0
                /\ UNCHANGED <<tape, head_, state>>
           ELSE /\ instr' = i
                /\ tape' = UpdateTape(tape, head_, m_program[i + 2])
                /\ IF OutOfMemory(head_, m_program[i + 3])
                   THEN /\ pc' = "fail"
                        /\ what' = "Out of memory"
                        /\ UNCHANGED <<head_, state>>
                   ELSE /\ head_' = MoveHead(head_, m_program[i + 3])
                        /\ state' = m_program[i + 4]
                        /\ pc' = IF Halted(m_program[i + 4]) THEN "halt" ELSE "run"
                        /\ what' = what
    /\ UNCHANGED <<form, input, program, m_program,
                   TTMProgram, TapeLeft, TapeRight, mstate, pos>>
    /\ UNCHANGED <<atVars, raiiVars, spVars>>

Delta(move) == IF move = "Right" THEN 1 ELSE IF move = "Left" THEN -1 ELSE 0

(* One instantiation of Machine<Program, TapeLeft, TapeRight, state>::run. *)
TTMStep ==
    /\ form = "TTM"
    /\ pc = "run"
    /\ Len(TapeLeft) + Len(TapeRight) <= MaxCells
    /\ LET k == find(TTMProgram, mstate, head(TapeRight))
       IN  IF k = 0
           THEN /\ pc' = "fail"
                /\ what' = "no type named instruction"
                /\ instr' = 0
                /\ UNCHANGED <<TapeLeft, TapeRight, mstate, pos>>
           ELSE IF k = -1
           THEN /\ pc' = "fail"
                /\ what' = "ambiguous template instantiation"
                /\ instr' = 0
                /\ UNCHANGED <<TapeLeft, TapeRight, mstate, pos>>
           ELSE LET r == execute(TapeLeft, TapeRight, TTMProgram[k])
                IN  /\ instr' = k
                    /\ TapeLeft' = r.left
                    /\ TapeRight' = r.right
                    /\ mstate' = r.state
                    /\ pos' = pos + Delta(TTMProgram[k].move)
                    /\ pc' = IF r.state = Halt THEN "halt" ELSE "run"
                    /\ what' = what
    /\ UNCHANGED <<form, input, program, m_program, tape, head_, state, TTMProgram>>
    /\ UNCHANGED <<atVars, raiiVars, spVars>>

Next ==
    \/ CTMConstruct
    \/ CTMRun
    \/ CTMStep
    \/ TTMStep

SpecMeasure == InitMeasure /\ [][Next]_vars

SpecMachine == InitMachine /\ [][Next]_vars

(* A started machine keeps running: the compiler and the run-time loop     *)
(* take the next step whenever there is one.                               *)
SpecMachineFair == InitMachine /\ [][Next]_vars /\ WF_vars(Next)

----------------------------------------------------------------------------
(* 20210208_atomic.cpp: main's test of std::atomic<int_fast16_t>.          *)
(* The worker threads all run the same lambda, and main observes of a      *)
(* thread only whether it has finished, joining the threads in the order   *)
(* it started them.  The threads are therefore counted: pending is the     *)
(* number of started threads that have not executed chernobyl++ yet, and   *)
(* a join returns when the joined thread can be one of the finished ones.  *)

NThreads == 86

(* int_fast16_t has at least 16 bits.                                      *)
Width == 16

(* A relaxed view of join() that does not wait for the thread.             *)
JoinReturns_detached == TRUE

(* t.join() returns: the thread has finished, i.e. the unfinished threads  *)
(* are among the other started threads that are not joined yet.            *)
JoinReturns == pending < spawned - joined

(* chernobyl++: the atomic read-modify-write on the counter.               *)
FetchAdd(c, n) == ((c + n + 2 ^ (Width - 1)) % 2 ^ Width) - 2 ^ (Width - 1)

MachineIdle ==
    /\ form = "none"
    /\ pc = "idle"
    /\ what = ""
    /\ input = <<>>
    /\ instr = 0
    /\ program = NoProgram
    /\ m_program = <<>>
    /\ tape = BlankTape
    /\ head_ = 0
    /\ state = "0"
    /\ TTMProgram = <<>>
    /\ TapeLeft = <<>>
    /\ TapeRight = <<>>
    /\ mstate = Init
    /\ pos = 0

(* std::atomic<int_fast16_t> chernobyl(0); std::vector<std::thread> test;  *)
InitAtomic ==
    /\ MachineIdle
    /\ RaiiIdle
    /\ PointersIdle
    /\ chernobyl = 0
    /\ spawned = 0
    /\ pending = 0
    /\ joined = 0
    /\ mainpc = "spawn"

(* for(int i = 0; i < 86; i++) test.emplace_back(...)                      *)
Spawn ==
    /\ mainpc = "spawn"
    /\ spawned < NThreads
    /\ spawned' = spawned + 1
    /\ pending' = pending + 1
    /\ mainpc' = IF spawned + 1 < NThreads THEN "spawn" ELSE "join"
    /\ UNCHANGED <<chernobyl, joined>>
    /\ UNCHANGED <<tmVars, raiiVars, spVars>>

(* The body of a worker thread: chernobyl++.                               *)
Increment ==
    /\ pending > 0
    /\ chernobyl' = FetchAdd(chernobyl, 1)
    /\ pending' = pending - 1
    /\ UNCHANGED <<spawned, joined, mainpc>>
    /\ UNCHANGED <<tmVars, raiiVars, spVars>>

(* for(auto& t : test) t.join();                                           *)
Join ==
    /\ mainpc = "join"
    /\ joined < spawned
    /\ JoinReturns
    /\ joined' = joined + 1
    /\ mainpc' = IF joined + 1 < spawned THEN "join" ELSE "assert"
    /\ UNCHANGED <<chernobyl, spawned, pending>>
    /\ UNCHANGED <<tmVars, raiiVars, spVars>>

(* assert(chernobyl == 86);                                                *)
AssertCount ==
    /\ mainpc = "assert"
    /\ mainpc' = IF chernobyl = 86 THEN "done" ELSE "abort"
    /\ UNCHANGED <<chernobyl, spawned, pending, joined>>
    /\ UNCHANGED <<tmVars, raiiVars, spVars>>

NextAtomic ==
    \/ Spawn
    \/ Increment
    \/ Join
    \/ AssertCount

SpecAtomic == InitAtomic /\ [][NextAtomic]_vars

----------------------------------------------------------------------------
(* What the claims speak about.                                            *)

Running == pc \in {"new", "ready", "run"}

(* The TTM's tape type reached the size up to which steps are explored.    *)
Capped == form = "TTM" /\ Len(TapeLeft) + Len(TapeRight) > MaxCells

(* The state of the machine and the symbol under its head.                 *)
CurState == IF form = "CTM" THEN state ELSE mstate
CurSymbol == IF form = "CTM" THEN tape[head_] ELSE head(TapeRight)
HaltState == IF form = "CTM" THEN state = "H" ELSE mstate = Halt

(* Instruction k of the running program (CTM: the five characters from     *)
(* index k) as a record; Matches: its state field is the current state and *)
(* its input field is the symbol under the head or the wildcard.           *)
InstructionAt(k) ==
    IF form = "CTM"
    THEN [state |-> m_program[k], input |-> m_program[k + 1],
          output |-> m_program[k + 2],
          move |-> ToMove(m_program[k + 3]), next |-> m_program[k + 4]]
    ELSE TTMProgram[k]

InstructionStarts ==
    IF form = "CTM"
    THEN {5 * j + 1 : j \in 0 .. (Len(m_program) \div 5 - 1)}
    ELSE 1 .. Len(TTMProgram)

Matches(k) ==
    /\ InstructionAt(k).state = CurState
    /\ InstructionAt(k).input \in {CurSymbol, any}

NoMatch == \A k \in InstructionStarts : ~Matches(k)

(* The failures the machines report.                                       *)
NoMatchReported ==
    /\ pc = "fail"
    /\ what = IF form = "CTM" THEN "Invalid program" ELSE "no type named instruction"
OutOfMemoryReported == pc = "fail" /\ what = "Out of memory"
AmbiguityReported == pc = "fail" /\ what = "ambiguous template instantiation"

(* The symbol at position a, counted from the first cell of the input.     *)
(* TTM: cells the tape type does not hold are blank.                       *)
Cell(a) ==
    IF form = "CTM"
    THEN tape[a + TapeLength \div 2]
    ELSE IF a < pos
         THEN IF pos - a <= Len(TapeLeft)
              THEN TapeLeft[Len(TapeLeft) - (pos - a) + 1] ELSE blank
         ELSE IF a - pos < Len(TapeRight)
              THEN TapeRight[a - pos + 1] ELSE blank

(* The positions a CTM tape has; the TTM is looked at over the same range. *)
Cells == (0 - TapeLength \div 2) .. (TapeLength \div 2 - 1)

(* The position of the head, counted from the first cell of the input.     *)
HeadPos == IF form = "CTM" THEN head_ - TapeLength \div 2 ELSE pos

(* Length of the leading run of non-blank symbols of in.                   *)
RECURSIVE LeadingRun(_)
LeadingRun(in) ==
    IF in = <<>> \/ in[1] = blank THEN 0 ELSE 1 + LeadingRun(Tail(in))

(* Number of '1' symbols among the first n symbols of in.                  *)
RECURSIVE Ones(_, _)
Ones(in, n) ==
    IF n = 0 THEN 0 ELSE Ones(in, n - 1) + (IF in[n] = one THEN 1 ELSE 0)

(* Binary representation of k without leading zeros.                       *)
RECURSIVE Binary(_)
Binary(k) ==
    (IF k < 2 THEN <<>> ELSE Binary(k \div 2)) \o <<IF k % 2 = 1 THEN one ELSE zero>>

(* The tape holds w ending just left of the first input cell.              *)
WrittenBeforeInput(w) ==
    \A j \in 1 .. Len(w) : Cell(j - Len(w) - 1) = w[j]

Measured(in) ==
    LET n == LeadingRun(in)
    IN  /\ WrittenBeforeInput(Binary(Ones(in, n)) \o <<"n", "m">>)
        /\ \A j \in 0 .. n - 1 : Cell(j) = erased

(* C1: the Normalized Measurement program halts on every input that fits  *)
(* on the CTM's tape, leaving the binary count of the '1' symbols of the   *)
(* leading non-blank run, then "nm", just left of the input, and the run   *)
(* itself erased.                                                          *)
C1_NormalizedMeasurement ==
    /\ Len(input) <= TapeLength \div 2 /\ ~Running => pc = "halt" /\ Measured(input)
    /\ Len(input) <= TapeLength \div 2 /\ Running => ENABLED Next

(* C10: on the empty input the Normalized Measurement program halts with   *)
(* 0nm just left of the head and blanks everywhere else.                   *)
C10_EmptyInput ==
    input = <<>> =>
        \/ Running /\ ENABLED Next
        \/ /\ pc = "halt"
           /\ WrittenBeforeInput(<<zero, "n", "m">>)
           /\ \A a \in Cells \ {-3, -2, -1} : Cell(a) = blank
           /\ form = "TTM" => TapeLeft \o TapeRight = <<zero, "n", "m">>

C10_Witness == form = "TTM" /\ input = <<>> /\ pc = "halt"

(* C2 (as claimed): every run reaches the halt state or reports that no    *)
(* instruction matches; no endless run and no other failure.  A            *)
(* constructor that rejects the program starts no run, and a TTM whose     *)
(* tape outgrew the explored size is not followed further.                 *)
C2_HaltsOrNoMatch == <>(pc = "halt" \/ NoMatchReported \/ pc = "reject" \/ Capped)

(* C2 (amended): a run that ends, ends in the halt state, or with the      *)
(* report that no instruction matches (and none does), or with "Out of     *)
(* memory" (CTM: the selected instruction moves the head off the tape), or *)
(* with an ambiguous instantiation (TTM: '?' under the head of a wildcard  *)
(* instruction); as long as it runs the state is not the halt state.       *)
C2_Outcomes ==
    /\ pc \in {"new", "ready", "run", "halt", "fail", "reject"}
    /\ pc = "halt" => HaltState
    /\ pc = "run" => ~HaltState
    /\ pc = "fail" =>
        \/ NoMatchReported /\ NoMatch
        \/ /\ OutOfMemoryReported
           /\ form = "CTM"
           /\ instr \in InstructionStarts
           /\ m_program[instr] = state
           /\ \/ m_program[instr + 3] = "R" /\ head_ = TapeLength - 1
              \/ m_program[instr + 3] = "L" /\ head_ = 0
        \/ /\ AmbiguityReported
           /\ form = "TTM"
           /\ CurSymbol = any
           /\ \E k \in InstructionStarts :
                /\ Matches(k) /\ InstructionAt(k).input = any
                /\ \A j \in 1 .. k - 1 : ~Matches(j)

C2_Witness == OutOfMemoryReported /\ instr # 0

(* Part of C2 as claimed: no run is endless.                               *)
C2_RunEnds == <>(~Running \/ Capped)

----------------------------------------------------------------------------
(* A step that selected an instruction, and that instruction.              *)
Executed == pc = "run" /\ instr' # 0
Selected == InstructionAt(instr')

(* C3: the instruction a step executes matches the current state and the   *)
(* symbol under the head (exactly or by the wildcard), and no instruction  *)
(* declared before it does.                                                *)
C3_FirstMatchWins ==
    [][Executed =>
        /\ instr' \in InstructionStarts
        /\ Matches(instr')
        /\ \A j \in InstructionStarts : j < instr' => ~Matches(j)]_vars

(* A running machine with two different instructions matching, the first   *)
(* of them after at least one step.                                        *)
C3_Witness ==
    /\ pc = "run"
    /\ instr # 0
    /\ \E j, k \in InstructionStarts :
        /\ j < k
        /\ Matches(j) /\ Matches(k)
        /\ InstructionAt(j).input # any /\ InstructionAt(k).input = any
        /\ InstructionAt(j).output # InstructionAt(k).output

----------------------------------------------------------------------------
(* The effects of a step on the tape, the head and the state.              *)
Written ==
    \A a \in Cells :
        Cell(a)' = IF a = HeadPos /\ Selected.output # nothing
                   THEN Selected.output ELSE Cell(a)
Moved == HeadPos' = HeadPos + Delta(Selected.move)
StateSet == CurState' = Selected.next

(* C4 (as claimed): a step writes at most the cell under the head, then    *)
(* moves the head as the instruction says and sets the next state.         *)
C4_Step == [][Executed => Written /\ Moved /\ StateSet]_vars

(* C4 (amended): the same, except that a CTM step whose instruction moves  *)
(* the head off the tape applies the write and then fails with "Out of     *)
(* memory", leaving head and state as they were.                           *)
C4_StepOrOutOfMemory ==
    [][Executed =>
        /\ Written
        /\ IF form = "CTM" /\ HeadPos + Delta(Selected.move) \notin Cells
           THEN HeadPos' = HeadPos /\ CurState' = CurState /\ OutOfMemoryReported'
           ELSE Moved /\ StateSet /\ pc' \in {"run", "halt"}]_vars

(* A TTM step has written a symbol and moved right of it.                  *)
C4_Witness ==
    /\ form = "TTM"
    /\ pc \in {"run", "halt"}
    /\ instr # 0
    /\ TTMProgram[instr].output # nothing
    /\ TTMProgram[instr].move = "Right"
    /\ Cell(HeadPos - 1) = TTMProgram[instr].output

----------------------------------------------------------------------------
(* C5 (as claimed): the no-match failure is the only failure of a run and  *)
(* is distinct from every other failure the machine reports.               *)
C5_DistinctOnlyError ==
    form = "CTM" =>
        /\ pc = "fail" => NoMatchReported
        /\ pc = "reject" => what # "Invalid program"

(* C5 (amended): a step finds no matching instruction exactly when it      *)
(* reports the no-match failure (CTM: runtime_error "Invalid program", the *)
(* message the constructor also uses for a malformed text); the failing    *)
(* step changes neither tape, head nor state, no step follows a failure,   *)
(* and the other failures of a run are "Out of memory" (CTM) and the       *)
(* ambiguous instantiation (TTM).                                          *)
C5_NoMatchFailure ==
    [][/\ pc = "run" /\ NoMatch =>
            /\ NoMatchReported'
            /\ UNCHANGED <<tape, head_, state, TapeLeft, TapeRight, mstate, pos>>
       /\ NoMatchReported' => pc = "run" /\ NoMatch
       /\ pc' = "fail" => NoMatchReported' \/ OutOfMemoryReported' \/ AmbiguityReported'
       /\ pc' = "reject" => what' \in {"Invalid program", "No program specified"}
       /\ pc \notin {"fail", "halt", "reject"}]_vars

(* The CTM reported that no instruction of a non-empty program matches.    *)
C5_Witness ==
    /\ form = "CTM"
    /\ NoMatchReported
    /\ m_program # <<>>
    /\ tape # LoadTape(input)

----------------------------------------------------------------------------
(* C6: no step is taken from the halt state, and the step that enters it   *)
(* ends the run with the tape as that step left it.                        *)
C6_HaltTerminal ==
    [][/\ ~HaltState
       /\ pc # "halt"
       /\ HaltState' => Executed /\ pc' = "halt" /\ Written /\ Moved]_vars

(* A halted machine whose program has an instruction for the halt state    *)
(* that matches the symbol under the head.                                 *)
C6_Witness ==
    /\ pc = "halt"
    /\ HaltState
    /\ \E k \in InstructionStarts : Matches(k)

----------------------------------------------------------------------------
(* C7 (as claimed): no run fails because the tape ran out.                 *)
C7_NeverOutOfTape == ~OutOfMemoryReported

(* The head leaves the cells the TTM's tape type held before the step.     *)
PastStored ==
    /\ Delta(Selected.move) # 0
    /\ HeadPos' \notin (pos - Len(TapeLeft)) .. (pos + Len(TapeRight) - 1)

(* C7 (amended): the TTM's tape is unbounded: a step that moves the head   *)
(* past the stored symbols reads a blank there and the run goes on.  The   *)
(* CTM's tape has TapeLength cells: its head stays on them, and a step     *)
(* fails with "Out of memory" exactly when its instruction moves the head  *)
(* off either end.                                                         *)
C7_TapeEnds ==
    [][Executed =>
        IF form = "TTM"
        THEN /\ pc' \in {"run", "halt"}
             /\ PastStored => CurSymbol' = blank
        ELSE /\ head_' \in 0 .. TapeLength - 1
             /\ OutOfMemoryReported' <=> HeadPos + Delta(Selected.move) \notin Cells]_vars

(* The TTM moved its head left of every stored symbol and runs on.         *)
C7_Witness ==
    /\ form = "TTM"
    /\ pc = "run"
    /\ instr # 0
    /\ TTMProgram[instr].move = "Left"
    /\ TapeLeft = <<>>
    /\ pos < 0
    /\ CurSymbol = blank

----------------------------------------------------------------------------
(* C9: under every interleaving of the 86 worker threads with main, the    *)
(* assertion is evaluated only after every thread was started and joined,  *)
(* and the counter then equals the thread count and the assertion holds.   *)
C9_AtomicCounter ==
    /\ mainpc # "abort"
    /\ mainpc \in {"assert", "done"} =>
        /\ spawned = NThreads
        /\ joined = NThreads
        /\ pending = 0
        /\ chernobyl = NThreads

C9_Witness == mainpc = "done" /\ chernobyl = NThreads /\ joined = NThreads

----------------------------------------------------------------------------
(* The runs on the source's test inputs.                                   *)

(* What show() prints begins with w: w ends just left of the first input   *)
(* cell, nothing but blanks precedes it (show(array) strips them), and the *)
(* TTM's tape type begins with it (show(Tape) prints every symbol held).   *)
ShownFirst(w) ==
    /\ WrittenBeforeInput(w)
    /\ \A a \in Cells : a < 0 - Len(w) => Cell(a) = blank
    /\ form = "TTM" =>
           /\ Len(TapeLeft) >= Len(w)
           /\ SubSeq(TapeLeft \o TapeRight, 1, Len(w)) = w

(* The run is over without a failure, or can still take a step.            *)
HaltsWith(w) ==
    \/ Running /\ ENABLED Next
    \/ pc = "halt" /\ HaltState /\ ShownFirst(w)

(* C11: on the 23-symbol input 01101110001110101110011 of test_ttm the     *)
(* Normalized Measurement halts with 1110nm (14 ones) at the start of the  *)
(* tape.                                                                   *)
C11_TestBinary ==
    input = test_binary => HaltsWith(<<one, one, one, zero, "n", "m">>)

C11_Witness ==
    /\ form = "TTM" /\ input = test_binary /\ pc = "halt"
    /\ TapeLeft = <<one, one, one, zero, "n", "m">> \o [j \in 1 .. 23 |-> erased]
    /\ TapeRight = <<>>

(* C12 as stated: on 011011100011101011100, a blank, 11 the output is      *)
(* 1110nm (14).                                                            *)
C12_BlankInside14 ==
    input = blank_inside => HaltsWith(<<one, one, one, zero, "n", "m">>)

(* C12: on 011011100011101011100, a blank, 11 the Normalized Measurement   *)
(* halts with 1100nm: the 12 ones of the 21 symbols before the blank are   *)
(* counted and those symbols erased; the blank and the 11 behind it stay.  *)
C12_BlankInside ==
    input = blank_inside =>
        /\ HaltsWith(<<one, one, zero, zero, "n", "m">>)
        /\ pc = "halt" =>
               /\ \A a \in 0 .. 20 : Cell(a) = erased
               /\ Cell(21) = blank /\ Cell(22) = one /\ Cell(23) = one
               /\ HeadPos = 21

C12_Witness ==
    /\ form = "CTM" /\ input = blank_inside /\ pc = "halt"
    /\ tape[TapeLength \div 2 - 6] = one /\ tape[TapeLength \div 2 - 4] = zero
    /\ tape[TapeLength \div 2 + 22] = one

(* C13: on Th1s_1s_n1ce!!1111 the Normalized Measurement halts with 111nm, *)
(* the binary count of the 7 '1' characters of the input, which has no     *)
(* blank.                                                                  *)
C13_TestNice ==
    input = test_nice =>
        /\ Ones(test_nice, LeadingRun(test_nice)) = 7
        /\ LeadingRun(test_nice) = Len(test_nice)
        /\ HaltsWith(<<one, one, one, "n", "m">>)

C13_Witness ==
    /\ form = "TTM" /\ input = test_nice /\ pc = "halt" /\ mstate = Halt
    /\ SubSeq(TapeLeft, 1, 6) = <<one, one, one, "n", "m", erased>>

(* C14: ctm_measure run on What_1s_the_w1dth_of_6_Si_atoms?!1, whose 32nd  *)
(* symbol is the wildcard character, halts with 11nm (3 ones); the '?' is  *)
(* erased like every other symbol of the input.                            *)
C14_CtmInput ==
    form = "CTM" /\ input = ctm_input =>
        /\ ctm_input[32] = any
        /\ HaltsWith(<<one, one, "n", "m">>)
        /\ pc = "halt" => \A a \in 0 .. Len(ctm_input) - 1 : Cell(a) = erased

C14_Witness ==
    /\ form = "CTM" /\ input = ctm_input /\ pc = "halt" /\ state = "H"
    /\ tape[TapeLength \div 2 + 31] = erased
    /\ tape[TapeLength \div 2 - 4] = one

----------------------------------------------------------------------------
(* C19: the CTM's tape has TapeLength cells.  From the start of run on,    *)
(* the head is one of them.  A step whose instruction moves right from the *)
(* last cell or left from cell 0 applies the instruction's write, then     *)
(* fails with "Out of memory" with head and state as they were, and no     *)
(* tape is returned; every other step moves the head by at most one cell,  *)
(* onto the tape, and does not fail so.                                    *)
OffTape(h, mv) == (mv = "R" /\ h = TapeLength - 1) \/ (mv = "L" /\ h = 0)

C19_FiniteTape ==
    [][form = "CTM" =>
        /\ pc' \in {"run", "halt", "fail"} => head_' \in DOMAIN tape'
        /\ DOMAIN tape' = 0 .. TapeLength - 1
        /\ pc = "run" /\ instr' # 0 =>
             LET out == m_program[instr' + 2]
                 mv == m_program[instr' + 3]
             IN  /\ tape' = IF out = nothing THEN tape
                            ELSE [tape EXCEPT ![head_] = out]
                 /\ IF OffTape(head_, mv)
                    THEN /\ pc' = "fail" /\ what' = "Out of memory"
                         /\ head_' = head_ /\ state' = state
                    ELSE /\ pc' \in {"run", "halt"}
                         /\ head_' = head_ + (IF mv = "R" THEN 1 ELSE
                                              IF mv = "L" THEN -1 ELSE 0)
                         /\ state' = m_program[instr' + 4]]_vars

(* The move off cell 0 failed: the cell has the instruction's output, the  *)
(* state is still the instruction's own state and not its next state.      *)
C19_Witness ==
    /\ form = "CTM" /\ OutOfMemoryReported
    /\ instr # 0
    /\ head_ = 0
    /\ m_program[instr + 3] = "L"
    /\ m_program[instr + 2] = erased /\ tape[0] = erased
    /\ state = m_program[instr] /\ state # m_program[instr + 4]

----------------------------------------------------------------------------
(* 20210201_raii.cpp: class Oss.  An Oss is [m_available, m_reserved]; a   *)
(* member function gives the Oss after the call and what() of the          *)
(* underflow_error it threw ("" when it returned).  Doses is int64_t; the  *)
(* amounts of main stay below 2^24, far from its range.                    *)

Returned(o) == [raised |-> "", oss |-> o]
Threw(o, msg) == [raised |-> msg, oss |-> o]

store(o, x) == Returned([o EXCEPT !.m_available = @ + x])

(* available() forgetting what is reserved.                                *)
available_stored(o) == o.m_available

available(o) == o.m_available - o.m_reserved

(* reserve that checks but does not record the reservation.                *)
reserve_free(o, x) ==
    IF x > available(o) THEN Threw(o, "not available") ELSE Returned(o)

reserve(o, x) ==
    IF x > available(o) THEN Threw(o, "not available")
    ELSE Returned([o EXCEPT !.m_reserved = @ + x])

(* giveup that checks but keeps the reservation.                           *)
giveup_kept(o, x) ==
    IF x > o.m_reserved THEN Threw(o, "not reserved") ELSE Returned(o)

giveup(o, x) ==
    IF x > o.m_reserved THEN Threw(o, "not reserved")
    ELSE Returned([o EXCEPT !.m_reserved = @ - x])

(* take that checks but leaves the stock as it is.                         *)
take_kept(o, x) ==
    IF x > o.m_available THEN Threw(o, "not stored") ELSE Returned(o)

take(o, x) ==
    IF x > o.m_available THEN Threw(o, "not stored")
    ELSE Returned([o EXCEPT !.m_available = @ - x])

(* The member function named op.                                           *)
Oss(op, o, x) ==
    CASE op = "store" -> store(o, x)
      [] op = "reserve" -> reserve(o, x)
      [] op = "giveup" -> giveup(o, x)
      [] op = "take" -> take(o, x)

----------------------------------------------------------------------------
(* main() of 20210201_raii.cpp as a list of statements.  A statement is    *)
(* [op, name, x, from, into, to, line]: name is the object declared or     *)
(* used, x the amount, from the object moved from, into where the new      *)
(* object lives ("scope", "caller" or the name of the list), to the        *)
(* statement to go on with (of "try": the handler; of "leave": the         *)
(* statement after the block and its handlers), line the source line.      *)
(* "block" opens a scope ({, a function body, a handler), "try" one with a *)
(* handler, "leave" ends it; "exit" is the destruction of the static       *)
(* storage after main returned.                                            *)
Stmt(op, name, x, from, into, to, line) ==
    [op |-> op, name |-> name, x |-> x, from |-> from, into |-> into,
     to |-> to, line |-> line]

main ==
    <<
    Stmt("block", "", 0, "", "", 0, 139),  \* 1
    Stmt("store", "", 25000, "", "", 0, 142),  \* 2
    Stmt("try", "", 0, "", "", 11, 145),  \* 3
    Stmt("reserve", "", 10000, "", "", 0, 149),  \* 4
    Stmt("reserve", "", 100000, "", "", 0, 152),  \* 5
    Stmt("take", "", 10000, "", "", 0, 157),  \* 6
    Stmt("giveup", "", 10000, "", "", 0, 158),  \* 7
    Stmt("take", "", 100000, "", "", 0, 160),  \* 8
    Stmt("giveup", "", 100000, "", "", 0, 161),  \* 9
    Stmt("leave", "", 0, "", "", 12, 162),  \* 10
    Stmt("giveup", "", 10000, "", "", 0, 164),  \* 11
    Stmt("try", "", 0, "", "", 18, 168),  \* 12
    Stmt("Plan", "some_really_vulnerable_people", 10000, "", "", 0, 169),  \* 13
    Stmt("Plan", "more_really_vulnerable_people", 100000, "", "", 0, 170),  \* 14
    Stmt("exec", "some_really_vulnerable_people", 0, "", "", 0, 175),  \* 15
    Stmt("exec", "more_really_vulnerable_people", 0, "", "", 0, 176),  \* 16
    Stmt("leave", "", 0, "", "", 18, 177),  \* 17
    Stmt("store", "", 375000, "", "", 0, 180),  \* 18
    Stmt("Plan", "important_medical_staff", 30000 * 2, "", "", 0, 182),  \* 19
    Stmt("exec", "important_medical_staff", 0, "", "", 0, 190),  \* 20
    Stmt("try", "", 0, "", "", 28, 195),  \* 21
    Stmt("Plan", "people_who_think_they_are_important", 100000, "", "", 0, 196),  \* 22
    Stmt("Plan", "egoistic_people", 1000000, "", "", 0, 197),  \* 23
    Stmt("Plan", "people_who_claim_to_be_essential", 2500000, "", "", 0, 198),  \* 24
    Stmt("Plan", "people_who_get_bold", (4500 + 1000000 + 1200000 + 1500000) * 2, "", "", 0, 203),  \* 25
    Stmt("move", "people_who_want_first", 0, "people_who_think_they_are_important", "scope", 0, 209),  \* 26
    Stmt("leave", "", 0, "", "", 28, 210),  \* 27
    Stmt("store", "", 2500000, "", "", 0, 220),  \* 28
    Stmt("block", "", 0, "", "", 0, 134),  \* 29
    Stmt("Plan", "medical_staff", 273000 * 2, "", "", 0, 135),  \* 30
    Stmt("return", "smart_plan()", 0, "medical_staff", "", 0, 136),  \* 31
    Stmt("move", "smart_plan()", 0, "medical_staff", "caller", 0, 136),  \* 32
    Stmt("leave", "", 0, "", "", 34, 137),  \* 33
    Stmt("exec", "smart_plan()", 0, "", "", 0, 221),  \* 34
    Stmt("destroy", "smart_plan()", 0, "", "", 0, 221),  \* 35
    Stmt("make_unique", "vulnerable_people", 155000 * 2, "", "", 0, 223),  \* 36
    Stmt("exec", "vulnerable_people", 0, "", "", 0, 224),  \* 37
    Stmt("store", "", 400000, "", "", 0, 226),  \* 38
    Stmt("block", "", 0, "", "", 0, 228),  \* 39
    Stmt("Plan", "even_more_vulnerable_people", 77000 * 2, "", "", 0, 229),  \* 40
    Stmt("exec", "even_more_vulnerable_people", 0, "", "", 0, 230),  \* 41
    Stmt("leave", "", 0, "", "", 43, 232),  \* 42
    Stmt("store", "", (4500000 * 4) \div 10, "", "", 0, 234),  \* 43
    Stmt("Plan", "more_medical_staff", 258000 * 2, "", "", 0, 235),  \* 44
    Stmt("Plan", "even_more_medical_staff", 204000 * 2, "", "", 0, 236),  \* 45
    Stmt("Plan", "less_important_medical_staff", 25000 * 2, "", "", 0, 237),  \* 46
    Stmt("Plan", "more_vulnerable_people", 60000 * 2, "", "", 0, 238),  \* 47
    Stmt("try", "", 0, "", "", 51, 240),  \* 48
    Stmt("Plan", "other_people", 4800000 * 2, "", "", 0, 241),  \* 49
    Stmt("leave", "", 0, "", "", 54, 242),  \* 50
    Stmt("block", "", 0, "", "", 0, 242),  \* 51
    Stmt("Plan", "blame_uk", 0, "", "", 0, 243),  \* 52
    Stmt("leave", "", 0, "", "", 54, 244),  \* 53
    Stmt("list", "people_who_dont_believe_in_the_virus", 0, "", "", 0, 248),  \* 54
    Stmt("Plan", "virus_wappies", (0 - 100000) * 2, "", "", 0, 249),  \* 55
    Stmt("move", "", 0, "virus_wappies", "people_who_dont_believe_in_the_virus", 0, 250),  \* 56
    Stmt("leave", "", 0, "", "", 58, 251),  \* 57
    Stmt("exit", "", 0, "", "", 0, 28)   \* 58
    >>

(* What a client may call on an Oss, and the range its amounts are         *)
(* explored in.                                                            *)
MaxDoses == 3
Amounts == (0 - 1) .. (MaxDoses - 1)

(* The try block of lines 195 to 214 as a client of Plan writes it, again  *)
(* and again: the statements of the block in any order and number, with    *)
(* amounts of the explored range, the handler ignoring what was thrown.    *)
(* "any" is the place between two statements of the block.                 *)
(* "assign" is "egoistic_people = std::move(...)" in either direction, the *)
(* use of Plan::operator= main makes only through the move constructor.    *)
Each(op, name) ==
    [i \in 1 .. MaxDoses + 1 |-> Stmt(op, name, i - 2, "", "", 0, 196)]

client ==
    <<Stmt("try", "", 0, "", "", 1, 195), Stmt("any", "", 0, "", "", 0, 195)>>
    \o [i \in 1 .. MaxDoses - 1 |-> Stmt("store", "", i, "", "", 0, 180)]
    \o Each("Plan", "people_who_think_they_are_important")
    \o Each("Plan", "egoistic_people")
    \o <<Stmt("move", "people_who_want_first", 0,
               "people_who_think_they_are_important", "scope", 0, 209),
          Stmt("assign", "egoistic_people", 0,
               "people_who_think_they_are_important", "itself", 0, 99),
          Stmt("assign", "people_who_think_they_are_important", 0,
               "egoistic_people", "itself", 0, 99),
          Stmt("exec", "people_who_think_they_are_important", 0, "", "", 0, 190),
          Stmt("exec", "egoistic_people", 0, "", "", 0, 190),
          Stmt("leave", "", 0, "", "", 1, 210)>>

----------------------------------------------------------------------------
(* Scopes and the objects in them.  An object is [name, kind, plans]:      *)
(* plans are the m_reserved of the Plans it is or owns (a Plan: itself; a  *)
(* unique_ptr: its pointee; a list: its elements, front first).  A scope   *)
(* keeps, for the claims, the storage at its entry, how many of its Plans  *)
(* were constructed (built) and destroyed (gone), and the storage and the  *)
(* objects as they were when the member function called last on a Plan of  *)
(* the scope (exec, the move constructor, operator=) was called, and the   *)
(* statement that called it (before).                                      *)
Obj(name, kind, plans) == [name |-> name, kind |-> kind, plans |-> plans]

NoMember ==
    [oss |-> [m_available |-> 0, m_reserved |-> 0], objs |-> <<>>,
     by |-> Stmt("", "", 0, "", "", 0, 0)]

Scope(handler) ==
    [handler |-> handler, objs |-> <<>>, entry |-> storage, built |-> 0, gone |-> 0,
     before |-> NoMember]

(* main runs, or the client of Plan.                                       *)
Runs == driver \in {"main", "plans"}

Top == frames[Len(frames)]
Cur == IF driver = "plans" THEN client[rpc] ELSE main[rpc]
Where(objs, name) == CHOOSE i \in 1 .. Len(objs) : objs[i].name = name
Named(name) == Top.objs[Where(Top.objs, name)]

(* frames with the innermost scope replaced by f.                          *)
WithTop(f) == [frames EXCEPT ![Len(frames)] = f]

(* The innermost scope when a member function is called.                   *)
Began == [Top EXCEPT !.before = [oss |-> storage, objs |-> Top.objs, by |-> Cur]]

(* The names declared in the innermost scope, and whether the client's     *)
(* statement s is well formed there: it declares a new name and uses       *)
(* declared ones.                                                          *)
InScope ==
    IF frames = <<>> THEN {} ELSE {Top.objs[i].name : i \in 1 .. Len(Top.objs)}

Compiles(s) ==
    CASE s.op = "Plan" -> s.name \notin InScope
      [] s.op = "move" -> s.name \notin InScope /\ s.from \in InScope
      [] s.op = "assign" -> {s.name, s.from} \subseteq InScope
      [] s.op = "exec" -> s.name \in InScope
      [] OTHER -> TRUE

(* The statement that follows statement k: the next one of main; the       *)
(* client is between two statements again.                                 *)
After(k) == IF driver = "plans" THEN {2} ELSE {k + 1}

(* The innermost scope with object name holding the amount m.              *)
Holding(name, m) ==
    [Top EXCEPT !.objs[Where(Top.objs, name)].plans = <<m>>]

(* main is at a statement with one of the ops, k steps of it done.         *)
At(ops, k) ==
    /\ Runs
    /\ mode = "run"
    /\ Cur.op \in ops
    /\ sub = k
    /\ driver = "plans" => Compiles(Cur)

ClientStatements ==
    {Stmt(op, "", x, "", "", 0, 0) :
        op \in {"store", "reserve", "giveup", "take"}, x \in Amounts}
InRange(o) ==
    /\ o.m_available \in (0 - MaxDoses) .. MaxDoses
    /\ o.m_reserved \in (0 - MaxDoses) .. MaxDoses

(* static Oss storage; and main about to run, or a client of Oss that      *)
(* catches what its calls throw.                                           *)
InitRaii ==
    /\ MachineIdle
    /\ AtomicIdle
    /\ PointersIdle
    /\ driver \in {"main", "client"}
    /\ storage = [m_available |-> 0, m_reserved |-> 0]
    /\ rpc = 1
    /\ sub = 0
    /\ mode = "run"
    /\ frames = <<>>
    /\ constructing = NoPlan
    /\ called = NoCall
    /\ raised = ""

(* "{", a function body, "try {", "catch(...) {"                           *)
EnterScope ==
    /\ At({"block", "try"}, 0)
    /\ frames' = Append(frames, Scope(IF Cur.op = "try" THEN Cur.to ELSE 0))
    /\ rpc' \in After(rpc)
    /\ called' = NoCall
    /\ UNCHANGED <<driver, storage, sub, mode, constructing, raised>>
    /\ UNCHANGED <<tmVars, atVars, spVars>>

(* storage.store(x), storage.reserve(x), storage.giveup(x),                *)
(* storage.take(x) called by main itself or by the client.                 *)
Direct(op) ==
    /\ driver \in {"main", "client", "plans"}
    /\ mode = "run"
    /\ sub = 0
    /\ \E s \in (IF driver = "client" THEN ClientStatements ELSE {Cur}) :
        /\ s.op = op
        /\ LET r == Oss(op, storage, s.x)
           IN  /\ storage' = r.oss
               /\ called' = [op |-> op, x |-> s.x, what |-> r.raised]
               /\ raised' = IF r.raised = "" THEN raised ELSE r.raised
               /\ driver = "plans" => InRange(r.oss)
               /\ IF driver = "client"
                  THEN InRange(r.oss) /\ UNCHANGED <<rpc, mode>>
                  ELSE IF r.raised = ""
                       THEN rpc' \in After(rpc) /\ mode' = "run"
                       ELSE rpc' = rpc /\ mode' = "unwind"
    /\ UNCHANGED <<driver, sub, frames, constructing>>
    /\ UNCHANGED <<tmVars, atVars, spVars>>

Store == Direct("store")
Reserve == Direct("reserve")
Giveup == Direct("giveup")
Take == Direct("take")

(* A call made by a Plan member function: storage, called and raised after *)
(* it.                                                                     *)
Calls(op, x) ==
    /\ storage' = Oss(op, storage, x).oss
    /\ called' = [op |-> op, x |-> x, what |-> Oss(op, storage, x).raised]
    /\ raised' = IF called'.what = "" THEN raised ELSE called'.what
    /\ driver = "plans" => InRange(storage')

NoCalls == called' = NoCall /\ UNCHANGED <<storage, raised>>

(* The client of Plan goes on with any statement that is well formed; what *)
(* the scope kept of the last call is forgotten.                           *)
Decide ==
    /\ At({"any"}, 0)
    /\ rpc' \in {k \in 3 .. Len(client) : Compiles(client[k])}
    /\ frames' = WithTop([Top EXCEPT !.before = NoMember])
    /\ NoCalls
    /\ UNCHANGED <<driver, sub, mode, constructing>>
    /\ UNCHANGED <<tmVars, atVars, spVars>>

(* objs without its i-th object.                                           *)
Without(objs, i) == SubSeq(objs, 1, i - 1) \o SubSeq(objs, i + 1, Len(objs))

(* Plan::Plan(Doses x) : m_reserved(x); also the Plan of make_unique.      *)
PlanInit ==
    /\ At({"Plan", "make_unique"}, 0)
    /\ constructing' =
           Obj(Cur.name, IF Cur.op = "Plan" THEN "Plan" ELSE "unique_ptr", <<Cur.x>>)
    /\ sub' = 1
    /\ NoCalls
    /\ UNCHANGED <<driver, rpc, mode, frames>>
    /\ UNCHANGED <<tmVars, atVars, spVars>>

(* Plan::Plan body: storage.reserve(x).  When it throws, the object was    *)
(* never constructed and no destructor will run for it.                    *)
PlanReserve ==
    /\ At({"Plan", "make_unique"}, 1)
    /\ Calls("reserve", Cur.x)
    /\ constructing' = NoPlan
    /\ sub' = 0
    /\ IF called'.what = ""
       THEN /\ frames' = WithTop([Top EXCEPT !.objs = Append(@, constructing),
                                             !.built = @ + 1])
            /\ rpc' \in After(rpc)
            /\ mode' = "run"
       ELSE /\ mode' = "unwind"
            /\ UNCHANGED <<frames, rpc>>
    /\ UNCHANGED driver
    /\ UNCHANGED <<tmVars, atVars, spVars>>

(* Plan::exec: storage.take(m_reserved);                                   *)
ExecTake ==
    /\ At({"exec"}, 0)
    /\ Calls("take", Named(Cur.name).plans[1])
    /\ IF called'.what = "" THEN sub' = 1 /\ mode' = "run"
                       ELSE sub' = 0 /\ mode' = "unwind"
    /\ frames' = WithTop(Began)
    /\ UNCHANGED <<driver, rpc, constructing>>
    /\ UNCHANGED <<tmVars, atVars, spVars>>

(* Plan::exec: storage.giveup(m_reserved);                                 *)
ExecGiveup ==
    /\ At({"exec"}, 1)
    /\ Calls("giveup", Named(Cur.name).plans[1])
    /\ IF called'.what = "" THEN sub' = 2 /\ mode' = "run"
                       ELSE sub' = 0 /\ mode' = "unwind"
    /\ UNCHANGED <<driver, rpc, frames, constructing>>
    /\ UNCHANGED <<tmVars, atVars, spVars>>

(* Plan::exec: m_reserved = 0;                                             *)
ExecClear ==
    /\ At({"exec"}, 2)
    /\ frames' = WithTop(Holding(Cur.name, 0))
    /\ rpc' \in After(rpc)
    /\ sub' = 0
    /\ NoCalls
    /\ UNCHANGED <<driver, mode, constructing>>
    /\ UNCHANGED <<tmVars, atVars, spVars>>

(* Plan::Plan(Plan&&): the member initializer "m_reserved = 0" of the new  *)
(* object, before "*this = std::move(plan)".                               *)
MoveInit ==
    /\ At({"move"}, 0)
    /\ constructing' = Obj(Cur.name, "Plan", <<0>>)
    /\ frames' = WithTop(Began)
    /\ sub' = 1
    /\ NoCalls
    /\ UNCHANGED <<driver, rpc, mode>>
    /\ UNCHANGED <<tmVars, atVars, spVars>>

(* "egoistic_people = std::move(...)": Plan::operator=(Plan&&) is called   *)
(* on a Plan that exists; constructing is the Plan that "this" points to.  *)
AssignBegin ==
    /\ At({"assign"}, 0)
    /\ constructing' = Named(Cur.name)
    /\ frames' = WithTop(Began)
    /\ sub' = 1
    /\ NoCalls
    /\ UNCHANGED <<driver, rpc, mode>>
    /\ UNCHANGED <<tmVars, atVars, spVars>>

(* operator= that forgets to give up what its Plan held.                   *)
AssignGiveup_forgotten ==
    /\ At({"move", "assign"}, 1)
    /\ sub' = 2
    /\ NoCalls
    /\ UNCHANGED <<driver, rpc, mode, frames, constructing>>
    /\ UNCHANGED <<tmVars, atVars, spVars>>

(* Plan::operator=(Plan&&): storage.giveup(m_reserved);                    *)
AssignGiveup ==
    /\ At({"move", "assign"}, 1)
    /\ Calls("giveup", constructing.plans[1])
    /\ IF called'.what = ""
       THEN sub' = 2 /\ mode' = "run" /\ UNCHANGED constructing
       ELSE sub' = 0 /\ mode' = "unwind" /\ constructing' = NoPlan
    /\ UNCHANGED <<driver, rpc, frames>>
    /\ UNCHANGED <<tmVars, atVars, spVars>>

(* Plan::operator=(Plan&&): m_reserved = plan.m_reserved;                  *)
AssignTake ==
    /\ At({"move", "assign"}, 2)
    /\ constructing' = [constructing EXCEPT !.plans = <<Named(Cur.from).plans[1]>>]
    /\ sub' = 3
    /\ NoCalls
    /\ UNCHANGED <<driver, rpc, mode, frames>>
    /\ UNCHANGED <<tmVars, atVars, spVars>>

(* What "plan.m_reserved = 0" leaves in the object moved from.             *)
shell_full(m) == m

shell(m) == 0

(* Plan::operator=(Plan&&): plan.m_reserved = 0; return *this; and the end *)
(* of the move constructor: the new Plan lives in the scope, in the        *)
(* calling scope (a returned value) or at the front of the list.           *)
AssignClear ==
    /\ At({"move", "assign"}, 3)
    /\ LET left == Holding(Cur.from, shell(Named(Cur.from).plans[1]))
       IN  frames' =
             CASE Cur.into = "scope" ->
                    WithTop([left EXCEPT !.objs = Append(@, constructing),
                                         !.built = @ + 1])
               [] Cur.into = "caller" ->
                    [frames EXCEPT ![Len(frames)] = left,
                                   ![Len(frames) - 1].objs = Append(@, constructing)]
               [] Cur.into = "itself" ->
                    WithTop([left EXCEPT
                        !.objs[Where(left.objs, Cur.name)] = constructing])
               [] OTHER ->
                    WithTop([left EXCEPT
                        !.objs[Where(left.objs, Cur.into)].plans =
                            constructing.plans \o @])
    /\ constructing' = NoPlan
    /\ rpc' \in After(rpc)
    /\ sub' = 0
    /\ NoCalls
    /\ UNCHANGED <<driver, mode>>
    /\ UNCHANGED <<tmVars, atVars, spVars>>

(* "return medical_staff;" with the copy elided: the local object is the   *)
(* returned value.                                                         *)
ReturnElided ==
    /\ At({"return"}, 0)
    /\ LET i == Where(Top.objs, Cur.from)
       IN  frames' = [frames EXCEPT
               ![Len(frames)].objs = Without(@, i),
               ![Len(frames) - 1].objs =
                   Append(@, [Top.objs[i] EXCEPT !.name = Cur.name])]
    /\ rpc' = rpc + 2
    /\ NoCalls
    /\ UNCHANGED <<driver, sub, mode, constructing>>
    /\ UNCHANGED <<tmVars, atVars, spVars>>

(* "return medical_staff;" without elision: the returned value is move     *)
(* constructed from the local object.                                      *)
ReturnMoved ==
    /\ At({"return"}, 0)
    /\ rpc' \in After(rpc)
    /\ NoCalls
    /\ UNCHANGED <<driver, sub, mode, frames, constructing>>
    /\ UNCHANGED <<tmVars, atVars, spVars>>

(* std::list<Plan> people_who_dont_believe_in_the_virus;                   *)
NewList ==
    /\ At({"list"}, 0)
    /\ frames' = WithTop([Top EXCEPT !.objs = Append(@, Obj(Cur.name, "list", <<>>))])
    /\ rpc' \in After(rpc)
    /\ NoCalls
    /\ UNCHANGED <<driver, sub, mode, constructing>>
    /\ UNCHANGED <<tmVars, atVars, spVars>>

(* Plan::~Plan() noexcept of the first Plan of the i-th object of the      *)
(* innermost scope: storage.giveup(m_reserved); std::terminate() when that *)
(* throws.  The object is gone with its last Plan.                         *)
PlanDestroyed(i) ==
    LET o == Top.objs[i]
    IN  /\ Calls("giveup", o.plans[1])
        /\ IF called'.what # ""
           THEN mode' = "terminate" /\ UNCHANGED <<frames, rpc>>
           ELSE /\ frames' = WithTop(
                      [Top EXCEPT
                         !.objs = IF Len(o.plans) = 1 THEN Without(@, i)
                                  ELSE [@ EXCEPT ![i].plans = Tail(o.plans)],
                         !.gone = @ + 1])
                /\ IF mode = "run"
                   THEN rpc' \in After(rpc) /\ mode' = "run"
                   ELSE UNCHANGED <<rpc, mode>>

(* The end of the full expression "smart_plan().exec();": the temporary is *)
(* destroyed.                                                              *)
DestroyTemp ==
    /\ At({"destroy"}, 0)
    /\ PlanDestroyed(Where(Top.objs, Cur.name))
    /\ UNCHANGED <<driver, sub, constructing>>
    /\ UNCHANGED <<tmVars, atVars, spVars>>

(* "}" reached: the objects of the scope are destroyed next.               *)
BeginLeave ==
    /\ At({"leave"}, 0)
    /\ mode' = "leave"
    /\ NoCalls
    /\ UNCHANGED <<driver, rpc, sub, frames, constructing>>
    /\ UNCHANGED <<tmVars, atVars, spVars>>

(* Leaving a scope or unwinding it: its last object is destroyed (a list   *)
(* element by element, an empty list without a call).                      *)
Destruct ==
    /\ Runs
    /\ mode \in {"leave", "unwind"}
    /\ Top.objs # <<>>
    /\ IF Top.objs[Len(Top.objs)].plans = <<>>
       THEN /\ frames' = WithTop([Top EXCEPT !.objs = Without(@, Len(@))])
            /\ NoCalls
            /\ UNCHANGED <<rpc, mode>>
       ELSE PlanDestroyed(Len(Top.objs))
    /\ UNCHANGED <<driver, sub, constructing>>
    /\ UNCHANGED <<tmVars, atVars, spVars>>

(* The scope is left: main goes on behind it.                              *)
EndScope ==
    /\ Runs
    /\ mode = "leave"
    /\ Top.objs = <<>>
    /\ frames' = SubSeq(frames, 1, Len(frames) - 1)
    /\ rpc' = Cur.to
    /\ mode' = "run"
    /\ NoCalls
    /\ UNCHANGED <<driver, sub, constructing>>
    /\ UNCHANGED <<tmVars, atVars, spVars>>

(* The scope is unwound: its handler starts if it has one, otherwise the   *)
(* exception leaves the enclosing scope, or main (std::terminate()).       *)
Caught ==
    /\ Runs
    /\ mode = "unwind"
    /\ Top.objs = <<>>
    /\ frames' = SubSeq(frames, 1, Len(frames) - 1)
    /\ IF Top.handler # 0
       THEN rpc' = Top.handler /\ mode' = "run"
       ELSE rpc' = rpc /\ mode' = IF Len(frames) = 1 THEN "terminate" ELSE "unwind"
    /\ NoCalls
    /\ UNCHANGED <<driver, sub, constructing>>
    /\ UNCHANGED <<tmVars, atVars, spVars>>

(* Oss::~Oss of the static storage: assert(m_reserved == 0);               *)
OssDestroyed ==
    /\ At({"exit"}, 0)
    /\ mode' = IF storage.m_reserved = 0 THEN "done" ELSE "abort"
    /\ NoCalls
    /\ UNCHANGED <<driver, rpc, sub, frames, constructing>>
    /\ UNCHANGED <<tmVars, atVars, spVars>>

NextRaii ==
    \/ EnterScope
    \/ Store
    \/ Reserve
    \/ Giveup
    \/ Take
    \/ PlanInit
    \/ PlanReserve
    \/ ExecTake
    \/ ExecGiveup
    \/ ExecClear
    \/ MoveInit
    \/ AssignGiveup
    \/ AssignTake
    \/ AssignClear
    \/ ReturnElided
    \/ ReturnMoved
    \/ NewList
    \/ DestroyTemp
    \/ BeginLeave
    \/ Destruct
    \/ EndScope
    \/ Caught
    \/ OssDestroyed

SpecRaii == InitRaii /\ [][NextRaii]_vars

(* main, or a client of Plan in place of main.                             *)
InitPlans ==
    /\ MachineIdle
    /\ AtomicIdle
    /\ PointersIdle
    /\ Runs
    /\ storage = [m_available |-> 0, m_reserved |-> 0]
    /\ rpc = 1
    /\ sub = 0
    /\ mode = "run"
    /\ frames = <<>>
    /\ constructing = NoPlan
    /\ called = NoCall
    /\ raised = ""

NextPlans ==
    \/ NextRaii
    \/ Decide
    \/ AssignBegin

SpecPlans == InitPlans /\ [][NextPlans]_vars

----------------------------------------------------------------------------
(* main is still executing, and the Plan (if any) whose destructor the     *)
(* next step runs.                                                         *)
MainRunning == driver = "main" /\ mode \in {"run", "leave", "unwind"}

AboutToDestroy ==
    /\ driver = "main"
    /\ \/ At({"destroy"}, 0)
       \/ /\ mode \in {"leave", "unwind"}
          /\ Top.objs # <<>>
          /\ Top.objs[Len(Top.objs)].plans # <<>>

Destroyed == IF mode = "run" THEN Named(Cur.name) ELSE Top.objs[Len(Top.objs)]

(* C15: main runs to its end, every scope left, and when the static        *)
(* storage is destroyed afterwards its m_reserved is 0: the assertion of   *)
(* Oss::~Oss holds.                                                        *)
C15_StorageReleased ==
    driver = "main" =>
        /\ MainRunning => ENABLED NextRaii
        /\ At({"exit"}, 0) => storage.m_reserved = 0 /\ frames = <<>>
        /\ ~MainRunning => mode = "done" /\ storage.m_reserved = 0

(* The storage was destroyed after the whole of main: the four stores      *)
(* minus the four executed Plans are left, the Plan of -200000 was made    *)
(* and the exception of line 241 was the last one thrown.                  *)
C15_Witness ==
    /\ driver = "main" /\ mode = "done" /\ rpc = Len(main)
    /\ storage = [m_available |-> 4030000, m_reserved |-> 0]
    /\ raised = "not available"

(* C16: when the handler of a scope starts because the constructor of a    *)
(* Plan threw, and Plans had been constructed in that scope before, all of *)
(* them are destroyed and the storage is what it was at scope entry:       *)
(* nothing stays reserved, nothing was taken.                              *)
C16_NoLeakOnException ==
    [][/\ driver = "main" /\ mode = "unwind" /\ mode' = "run"
       /\ Cur.op \in {"Plan", "make_unique"}
       /\ Top.built > 0
       => /\ raised = "not available"
          /\ Top.gone = Top.built
          /\ Top.objs = <<>>
          /\ rpc' = Top.handler
          /\ storage'.m_reserved = Top.entry.m_reserved
          /\ storage'.m_available = Top.entry.m_available]_vars

(* The handler of the try block of line 195 starts: the Plan of 100000     *)
(* constructed before the failing one holds nothing any more.              *)
C16_Witness ==
    /\ driver = "main" /\ mode = "run" /\ sub = 0
    /\ rpc = main[21].to
    /\ called = NoCall
    /\ storage = [m_available |-> 340000, m_reserved |-> 0]
    /\ Len(frames) = 1

(* C17: Plan::~Plan never throws: whenever a Plan is about to be           *)
(* destroyed, what it holds does not exceed the storage's m_reserved, and  *)
(* std::terminate() is never called.                                       *)
C17_DestructorNeverThrows ==
    /\ mode # "terminate"
    /\ AboutToDestroy => Destroyed.plans[1] <= storage.m_reserved

(* The list is being destroyed with the Plan of -200000 moved into it,     *)
(* behind the moved-from virus_wappies.                                    *)
C17_Witness ==
    /\ AboutToDestroy
    /\ Destroyed.kind = "list"
    /\ Destroyed.plans[1] < 0
    /\ Top.gone > 0

(* C20: reserve(x) throws exactly when x > m_available - m_reserved,       *)
(* giveup(x) exactly when x > m_reserved, take(x) exactly when             *)
(* x > m_available; a call that throws leaves the Oss as it was; a call    *)
(* that returns has offset exactly one of the two amounts by exactly x     *)
(* (reserve: m_reserved + x, giveup: m_reserved - x, take:                 *)
(* m_available - x) and left the other alone.                              *)
C20_OssCalls ==
    [][called'.op \in {"reserve", "giveup", "take"} =>
        LET x == called'.x
            threw == called'.what # ""
        IN  /\ called'.op = "reserve" =>
                /\ threw <=> x > storage.m_available - storage.m_reserved
                /\ threw => called'.what = "not available"
                /\ ~threw => storage'.m_reserved = storage.m_reserved + x
                /\ storage'.m_available = storage.m_available
            /\ called'.op = "giveup" =>
                /\ threw <=> x > storage.m_reserved
                /\ threw => called'.what = "not reserved"
                /\ ~threw => storage'.m_reserved = storage.m_reserved - x
                /\ storage'.m_available = storage.m_available
            /\ called'.op = "take" =>
                /\ threw <=> x > storage.m_available
                /\ threw => called'.what = "not stored"
                /\ ~threw => storage'.m_available = storage.m_available - x
                /\ storage'.m_reserved = storage.m_reserved
            /\ threw => storage' = storage /\ raised' = called'.what]_vars

(* main's second reserve (line 152) threw with the first reservation still *)
(* in place.                                                               *)
C20_Witness ==
    /\ driver = "main"
    /\ called = [op |-> "reserve", x |-> 100000, what |-> "not available"]
    /\ storage = [m_available |-> 25000, m_reserved |-> 10000]
    /\ mode = "unwind"
    /\ constructing = NoPlan /\ Cur.op = "reserve"

(* What the Plan called name held when the member function called last    *)
(* was called, what the Plan of the innermost scope called name holds in   *)
(* the scopes fs, and the Plan a move was made into, in the scopes fs.     *)
Held(name) == Top.before.objs[Where(Top.before.objs, name)].plans[1]

Holds(fs, name) ==
    LET objs == fs[Len(frames)].objs IN objs[Where(objs, name)].plans[1]

Target(fs, s) ==
    CASE s.into \in {"scope", "itself"} -> Holds(fs, s.name)
      [] s.into = "caller" ->
            LET objs == fs[Len(frames) - 1].objs IN objs[Len(objs)].plans[1]
      [] OTHER -> Holds(fs, s.into)

(* C21: when the move constructor or operator= of a Plan Q returns, called *)
(* with a different Plan P, P holds 0 and Q holds what P held before; the  *)
(* storage's m_reserved is lower by what Q held before (0 for the move     *)
(* constructor), so what was taken over from P is still reserved, and      *)
(* m_available is what it was before.                                      *)
C21_MoveLeavesShell ==
    [][At({"move", "assign"}, 3) =>
        LET s == Cur
            p == Held(s.from)
            q == IF s.op = "assign" THEN Held(s.name) ELSE 0
        IN  /\ s.name # s.from
            /\ Top.before.by = s
            /\ mode' = "run"
            /\ Holds(frames', s.from) = 0
            /\ Target(frames', s) = p
            /\ storage'.m_reserved = Top.before.oss.m_reserved - q
            /\ storage'.m_available = Top.before.oss.m_available]_vars

(* egoistic_people, holding 1, was assigned from                           *)
(* people_who_think_they_are_important, holding 2, with 3 stored: the      *)
(* source is an empty shell, 2 are still reserved.                         *)
C21_Witness ==
    /\ driver = "plans" /\ mode = "run" /\ sub = 0
    /\ Cur.op = "any"
    /\ Top.before.by.op = "assign" /\ Top.before.by.name = "egoistic_people"
    /\ Held("egoistic_people") = 1
    /\ Held("people_who_think_they_are_important") = 2
    /\ Top.before.oss = [m_available |-> 3, m_reserved |-> 3]
    /\ Holds(frames, "egoistic_people") = 2
    /\ Holds(frames, "people_who_think_they_are_important") = 0
    /\ storage = [m_available |-> 3, m_reserved |-> 2]

(* A Plan is about to be destroyed, by main or by the client, and what it  *)
(* holds.                                                                  *)
Destroying ==
    /\ Runs
    /\ \/ At({"destroy"}, 0)
       \/ /\ mode \in {"leave", "unwind"}
          /\ Top.objs # <<>>
          /\ Top.objs[Len(Top.objs)].plans # <<>>

Dying == IF mode = "run" THEN Named(Cur.name) ELSE Top.objs[Len(Top.objs)]

(* C22: when exec of a Plan holding r returns, the storage's m_available   *)
(* and m_reserved are both lower by r than when it was called, so          *)
(* available() is what it was, and the Plan holds 0; and no step of exec   *)
(* on, or of the destruction of, a Plan holding 0, as exec leaves it,      *)
(* changes the storage.                                                    *)
C22_Exec ==
    [][/\ At({"exec"}, 2) =>
            LET r == Held(Cur.name)
                was == Top.before.oss
            IN  /\ Top.before.by = Cur
                /\ mode' = "run"
                /\ storage'.m_available = was.m_available - r
                /\ storage'.m_reserved = was.m_reserved - r
                /\ available(storage') = available(was)
                /\ Holds(frames', Cur.name) = 0
       /\ At({"exec"}, 0) \/ At({"exec"}, 1) \/ At({"exec"}, 2) =>
            (Named(Cur.name).plans[1] = 0 => storage' = storage)
       /\ Destroying => (Dying.plans[1] = 0 => storage' = storage)]_vars

(* important_medical_staff.exec() of line 190 has returned: the 60000 it   *)
(* held are taken from the 400000 stored and nothing is reserved.          *)
C22_Witness ==
    /\ driver = "main" /\ mode = "run" /\ sub = 0
    /\ rpc = 21
    /\ Top.before.by = main[20]
    /\ Held("important_medical_staff") = 30000 * 2
    /\ Top.before.oss = [m_available |-> 400000, m_reserved |-> 60000]
    /\ Holds(frames, "important_medical_staff") = 0
    /\ storage = [m_available |-> 340000, m_reserved |-> 0]

----------------------------------------------------------------------------
(* 20210125_smart_pointers.cpp.  A std::shared_ptr<Person> is the name of  *)
(* the Person it refers to, or nullptr; use_count is kept as shared_ptr    *)
(* keeps it: a copy adds one, a destroyed or reset pointer takes one off,  *)
(* and the Person is deleted when its count reaches 0.                     *)

(* A copy of a pointer that does not count.                                *)
copied_uncounted(uc, p) == uc

copied(uc, p) == IF p = nullptr THEN uc ELSE [uc EXCEPT ![p] = @ + 1]

released(uc, p) == IF p = nullptr THEN uc ELSE [uc EXCEPT ![p] = @ - 1]

(* The Persons left on the heap once the counts are uc.                    *)
Remaining(ps, uc) == {p \in ps : p \in People => uc[p] > 0}

(* main's six shared pointers in the order of their declarations.          *)
Declared ==
    << [var |-> "kaine", person |-> "Kaine"],
       [var |-> "pence", person |-> "Pence"],
       [var |-> "clinton", person |-> "Clinton"],
       [var |-> "biden", person |-> "Biden"],
       [var |-> "harris", person |-> "Harris"],
       [var |-> "trump", person |-> "Trump"] >>

(* The two Campaign arguments of election_2016 and election_2020, named by *)
(* the parameter they initialize, and the parameter us_cabinet is assigned *)
(* from.                                                                   *)
Arguments(year) ==
    IF year = 2016
    THEN {[param |-> "stronger_together", president |-> "clinton",
           vice_president |-> "kaine"],
          [param |-> "make_america_great_again", president |-> "trump",
           vice_president |-> "pence"]}
    ELSE {[param |-> "keep_america_great_again", president |-> "trump",
           vice_president |-> "pence"],
          [param |-> "build_back_better", president |-> "biden",
           vice_president |-> "harris"]}

Installed(year) ==
    IF year = 2016 THEN "make_america_great_again" ELSE "build_back_better"

AtP(at) == spc.at = at
Go(at, year) == spc' = [at |-> at, year |-> year]

InitPointers ==
    /\ MachineIdle
    /\ AtomicIdle
    /\ RaiiIdle
    /\ NoPointers
    /\ spc = [at |-> "president", year |-> 0]

(* std::unique_ptr<Person> president(new Person("JFK"));                   *)
NewPresident ==
    /\ AtP("president") /\ president = nullptr
    /\ president' = "JFK"
    /\ persons' = persons \cup {"JFK"}
    /\ UNCHANGED <<spc, use_count, locals, campaigns, administration, us_cabinet,
                   speech, fact>>
    /\ UNCHANGED <<tmVars, atVars, raiiVars>>

(* president.reset(new Person("Johnson")): the previous Person is deleted. *)
ResetPresident ==
    /\ AtP("president") /\ president = "JFK"
    /\ president' = "Johnson"
    /\ persons' = (persons \cup {"Johnson"}) \ {president}
    /\ UNCHANGED <<spc, use_count, locals, campaigns, administration, us_cabinet,
                   speech, fact>>
    /\ UNCHANGED <<tmVars, atVars, raiiVars>>

(* "}": president goes out of scope and deletes its Person.                *)
EndPresident ==
    /\ AtP("president") /\ president = "Johnson"
    /\ president' = nullptr
    /\ persons' = persons \ {president}
    /\ Go("shared", 0)
    /\ UNCHANGED <<use_count, locals, campaigns, administration, us_cabinet,
                   speech, fact>>
    /\ UNCHANGED <<tmVars, atVars, raiiVars>>

(* The next of the six declarations: a new Person owned by one pointer.    *)
MakeShared ==
    /\ AtP("shared")
    /\ LET n == Cardinality(persons) + 1
           d == Declared[n]
       IN  /\ persons' = persons \cup {d.person}
           /\ use_count' = [use_count EXCEPT ![d.person] = 1]
           /\ locals' = [locals EXCEPT ![d.var] = d.person]
           /\ IF n = Len(Declared) THEN Go("args", 2016) ELSE UNCHANGED spc
    /\ UNCHANGED <<president, campaigns, administration, us_cabinet, speech, fact>>
    /\ UNCHANGED <<tmVars, atVars, raiiVars>>

(* One of the two std::make_unique<Campaign>(p, vp) of an election call    *)
(* (the order of the two is unspecified): Campaign::Campaign copies both   *)
(* pointers.                                                               *)
MakeCampaign ==
    /\ AtP("args")
    /\ \E a \in Arguments(spc.year) :
        /\ \A c \in campaigns : c.param # a.param
        /\ campaigns' = campaigns \cup
               {[param |-> a.param, president |-> locals[a.president],
                 vice_president |-> locals[a.vice_president]]}
        /\ use_count' = copied(copied(use_count, locals[a.president]),
                               locals[a.vice_president])
    /\ IF Cardinality(campaigns') = Cardinality(Arguments(spc.year))
       THEN Go("try", spc.year) ELSE UNCHANGED spc
    /\ UNCHANGED <<president, persons, locals, administration, us_cabinet, speech, fact>>
    /\ UNCHANGED <<tmVars, atVars, raiiVars>>

(* try { throw ...; } catch(...) of election_2016 and election_2020: the   *)
(* exception is caught where it is thrown.                                 *)
ThrowDirt ==
    /\ AtP("try")
    /\ Go("convert", spc.year)
    /\ UNCHANGED <<president, persons, use_count, locals, campaigns, administration,
                   us_cabinet, speech, fact>>
    /\ UNCHANGED <<tmVars, atVars, raiiVars>>

(* Campaign::operator std::unique_ptr<Administration>(): the initializer   *)
(* list holds copies of president and vice_president, the deque people     *)
(* copies them from the list, the list is destroyed.                       *)
Convert ==
    /\ AtP("convert")
    /\ \E c \in campaigns :
        /\ c.param = Installed(spc.year)
        /\ LET l == copied(copied(use_count, c.president), c.vice_president)
               people == copied(copied(l, c.president), c.vice_president)
           IN  use_count' = released(released(people, c.vice_president), c.president)
        /\ administration' = <<c.president, c.vice_president>>
    /\ Go("assign", spc.year)
    /\ UNCHANGED <<president, persons, locals, campaigns, us_cabinet, speech, fact>>
    /\ UNCHANGED <<tmVars, atVars, raiiVars>>

RECURSIVE releasedAll(_, _)
releasedAll(uc, ps) ==
    IF ps = <<>> THEN uc ELSE releasedAll(released(uc, Head(ps)), Tail(ps))

(* us_cabinet = *campaign: us_cabinet takes the new Administration and     *)
(* deletes the one it had, with its deque of pointers.                     *)
AssignCabinet ==
    /\ AtP("assign")
    /\ us_cabinet' = administration
    /\ administration' = <<>>
    /\ use_count' = releasedAll(use_count, us_cabinet)
    /\ persons' = Remaining(persons, use_count')
    /\ Go(IF spc.year = 2016 THEN "speech" ELSE "destroy", spc.year)
    /\ UNCHANGED <<president, locals, campaigns, speech, fact>>
    /\ UNCHANGED <<tmVars, atVars, raiiVars>>

(* auto speech = std::make_unique<Dirt>(); return speech.get(): the Dirt   *)
(* is deleted when election_2016 returns, the returned pointer dangles.    *)
MakeSpeech ==
    /\ AtP("speech")
    /\ speech' = "dangling"
    /\ Go("destroy", spc.year)
    /\ UNCHANGED <<president, persons, use_count, locals, campaigns, administration,
                   us_cabinet, fact>>
    /\ UNCHANGED <<tmVars, atVars, raiiVars>>

(* After the call one of the Campaigns is deleted by its unique_ptr (the   *)
(* by-value parameter or the temporary): both its pointers are destroyed.  *)
DestroyCampaign ==
    /\ AtP("destroy")
    /\ \E c \in campaigns :
        /\ campaigns' = campaigns \ {c}
        /\ use_count' = released(released(use_count, c.vice_president), c.president)
    /\ persons' = Remaining(persons, use_count')
    /\ IF campaigns' = {}
       THEN Go(IF spc.year = 2016 THEN "fact" ELSE "reset", spc.year)
       ELSE UNCHANGED spc
    /\ UNCHANGED <<president, locals, administration, us_cabinet, speech, fact>>
    /\ UNCHANGED <<tmVars, atVars, raiiVars>>

(* The bound of the loop.                                                  *)
Resets == 1461

(* for(int i = 0; i < 1461; i++) fact.reset(new Dirt());                   *)
ResetFact ==
    /\ AtP("fact")
    /\ fact < Resets
    /\ fact' = fact + 1
    /\ IF fact' = Resets THEN Go("believe", 0) ELSE UNCHANGED spc
    /\ UNCHANGED <<president, persons, use_count, locals, campaigns, administration,
                   us_cabinet, speech>>
    /\ UNCHANGED <<tmVars, atVars, raiiVars>>

(* believe(speech): the pointer is passed on, not dereferenced.            *)
Believe ==
    /\ AtP("believe")
    /\ Go("args", 2020)
    /\ UNCHANGED <<president, persons, use_count, locals, campaigns, administration,
                   us_cabinet, speech, fact>>
    /\ UNCHANGED <<tmVars, atVars, raiiVars>>

(* biden.reset();                                                          *)
ResetBiden ==
    /\ AtP("reset")
    /\ locals' = [locals EXCEPT !["biden"] = nullptr]
    /\ use_count' = released(use_count, locals["biden"])
    /\ persons' = Remaining(persons, use_count')
    /\ Go("assert", 0)
    /\ UNCHANGED <<president, campaigns, administration, us_cabinet, speech, fact>>
    /\ UNCHANGED <<tmVars, atVars, raiiVars>>

(* Administration::president(): *people.begin()                            *)
PresidentOf(cabinet) == cabinet[1]

(* assert(us_cabinet->president());                                        *)
AssertPresident ==
    /\ AtP("assert")
    /\ Go(IF us_cabinet # <<>> /\ PresidentOf(us_cabinet) # nullptr
          THEN "return" ELSE "abort", 0)
    /\ UNCHANGED <<president, persons, use_count, locals, campaigns, administration,
                   us_cabinet, speech, fact>>
    /\ UNCHANGED <<tmVars, atVars, raiiVars>>

(* return 47: main's pointers are destroyed.                               *)
ReturnMain ==
    /\ AtP("return")
    /\ locals' = [v \in Locals |-> nullptr]
    /\ use_count' = releasedAll(use_count, [k \in 1 .. Len(Declared) |-> locals[Declared[k].var]])
    /\ persons' = Remaining(persons, use_count')
    /\ Go("exit", 0)
    /\ UNCHANGED <<president, campaigns, administration, us_cabinet, speech, fact>>
    /\ UNCHANGED <<tmVars, atVars, raiiVars>>

(* The global us_cabinet is destroyed after main.                          *)
ExitCabinet ==
    /\ AtP("exit")
    /\ us_cabinet' = <<>>
    /\ use_count' = releasedAll(use_count, us_cabinet)
    /\ persons' = Remaining(persons, use_count')
    /\ Go("done", 0)
    /\ UNCHANGED <<president, locals, campaigns, administration, speech, fact>>
    /\ UNCHANGED <<tmVars, atVars, raiiVars>>

NextPointers ==
    \/ NewPresident
    \/ ResetPresident
    \/ EndPresident
    \/ MakeShared
    \/ MakeCampaign
    \/ ThrowDirt
    \/ Convert
    \/ AssignCabinet
    \/ MakeSpeech
    \/ DestroyCampaign
    \/ ResetFact
    \/ Believe
    \/ ResetBiden
    \/ AssertPresident
    \/ ReturnMain
    \/ ExitCabinet

SpecPointers == InitPointers /\ [][NextPointers]_vars

(* Every pointer that is not null, wherever it is held.                    *)
Pointers ==
    {locals[v] : v \in Locals}
    \cup {c.president : c \in campaigns} \cup {c.vice_president : c \in campaigns}
    \cup {administration[k] : k \in DOMAIN administration}
    \cup {us_cabinet[k] : k \in DOMAIN us_cabinet}

(* C18: a Person is on the heap as long as a shared pointer refers to it;  *)
(* when main asserts, after election_2020 installed the Administration of  *)
(* (biden, harris) and main reset biden, us_cabinet->president() is not    *)
(* null and refers to the Person Biden, which is alive, held by that one   *)
(* pointer; the assertion holds.                                           *)
C18_SharedStaysAlive ==
    /\ \A p \in Pointers \ {nullptr} : p \in persons /\ use_count[p] > 0
    /\ ~AtP("abort")
    /\ AtP("assert") =>
        /\ locals["biden"] = nullptr
        /\ us_cabinet # <<>>
        /\ PresidentOf(us_cabinet) = "Biden"
        /\ "Biden" \in persons
        /\ use_count["Biden"] = 1

(* The assertion was evaluated and held.                                   *)
C18_Witness ==
    /\ AtP("return")
    /\ locals["biden"] = nullptr
    /\ us_cabinet = <<"Biden", "Harris">>
    /\ "Biden" \in persons
    /\ fact = Resets


====
